---------------------------- MODULE Spec2Model ----------------------------
(***************************************************************************)
(* A model of cope (hildjj/cope): the argument rewriter that sits in front *)
(* of the `code` launcher (src/src/main.rs, file_utils.rs,                 *)
(* string_utils.rs).                                                       *)
(*                                                                         *)
(* Representation.  An argument (OsString / CString / String) is a         *)
(* sequence of characters, each a one-character TLA+ string.  Two tokens   *)
(* stand for non-ASCII content: "<FF>" is the single byte 0xFF (not valid  *)
(* UTF-8) and "<FFFD>" is U+FFFD, the replacement character that the lossy *)
(* conversions (display, to_string_lossy) put in its place.  A Path is     *)
(* the sequence of its normal components below the root, so <<>> is "/".   *)
(* Option<T> is a sequence of length at most one: <<>> is None, <<v>> is   *)
(* Some(v).                                                                *)
(***************************************************************************)
EXTENDS Integers, Sequences, FiniteSets, TLC

VARIABLES
    argv,       \* the argument vector handed to process_args (input, never changed)
    cwd,        \* env::current_dir()
    dirs,       \* the directories of the filesystem (set of Paths)
    files,      \* the regular files of the filesystem: Path -> content
    pc,         \* position in process_args: "start", "scan", "done", "panic"
    args,       \* process_args' local Vec<OsString>
    it,         \* index of the element `it.next()` yields next
    result,     \* process_args' Vec<CString>
    cache,      \* BTreeMap<PathBuf, Option<DirProperties>>
    warnings,   \* the lines process_args has written with eprintln!, in order
    kinds,      \* for each element of result, the branch that pushed it
    resolved,   \* the marker directories dir_properties was called on, in order
    chooser,    \* the marker directories choose() was called on, in order
    call        \* the function run on its own, outside process_args: its
                \* name, arguments and locals ([fn |-> "process_args"] in a
                \* run of process_args)

vars == <<argv, cwd, dirs, files, pc, args, it, result, cache, warnings,
          kinds, resolved, chooser, call>>

-----------------------------------------------------------------------------
(* Bounds *)

\* The largest number of arguments after argv[0].
MaxArgs == 3

\* The largest number of segments of a path string handed to normalize.
MaxSegments == 3

\* The largest number of components of a project root handed to container_id.
MaxRootDepth == 2

\* The largest number of bytes handed to hex.
MaxBytes == 2

\* The largest number of components of a path handed to find_dir_up.
MaxDepth == 2

\* The largest number of arguments after argv[0] where every kind of path is
\* tried against every place of a marker directory.
MaxPaths == 2

-----------------------------------------------------------------------------
(* Constants of main.rs *)

DEVCONTAINER_DIR == <<".","d","e","v","c","o","n","t","a","i","n","e","r">>

CONFIG_FILE == <<"d","e","v","c","o","n","t","a","i","n","e","r",".","j","s","o","n">>

CODE == <<"c","o","d","e">>

GIT_DIR == <<".","g","i","t">>

\* The only line process_args writes with eprintln! (main.rs 250-252).
COALESCED_WARNING ==
    "cope does not handle coalesced single letter flags with parameters cleanly yet"

PARAM_SIZE ==
       (<<"-","-","a","d","d","-","m","c","p">> :> 1)
    @@ (<<"-","-","a","d","d">> :> 1)
    @@ (<<"-","-","c","a","t","e","g","o","r","y">> :> 1)
    @@ (<<"-","-","d","i","f","f">> :> 2)
    @@ (<<"-","-","d","i","s","a","b","l","e","-","e","x","t","e","n","s","i","o","n">> :> 1)
    @@ (<<"-","-","e","n","a","b","l","e","-","p","r","o","p","o","s","e","d","-","a","p","i">> :> 1)
    @@ (<<"-","-","e","x","t","e","n","s","i","o","n","s","-","d","i","r">> :> 1)
    @@ (<<"-","-","g","o","t","o">> :> 1)
    @@ (<<"-","-","i","n","s","p","e","c","t","-","b","r","k","-","e","x","t","e","n","s","i","o","n","s">> :> 1)
    @@ (<<"-","-","i","n","s","p","e","c","t","-","e","x","t","e","n","s","i","o","n","s">> :> 1)
    @@ (<<"-","-","i","n","s","t","a","l","l","-","e","x","t","e","n","s","i","o","n">> :> 1)
    @@ (<<"-","-","l","o","c","a","l","e">> :> 1)
    @@ (<<"-","-","l","o","c","a","t","e","-","s","h","e","l","l","-","i","n","t","e","g","r","a","t","i","o","n","-","p","a","t","h">> :> 1)
    @@ (<<"-","-","l","o","g">> :> 1)
    @@ (<<"-","-","m","e","r","g","e">> :> 4)
    @@ (<<"-","-","p","r","o","f","i","l","e">> :> 1)
    @@ (<<"-","-","r","e","m","o","v","e">> :> 1)
    @@ (<<"-","-","s","y","n","c">> :> 1)
    @@ (<<"-","-","u","n","i","n","s","t","a","l","l","-","e","x","t","e","n","s","i","o","n">> :> 1)
    @@ (<<"-","-","u","s","e","r","-","d","a","t","a","-","d","i","r">> :> 1)
    @@ (<<"-","a">> :> 1)
    @@ (<<"-","d">> :> 2)
    @@ (<<"-","g">> :> 1)
    @@ (<<"-","m">> :> 4)

TERMINAL_PARAM ==
    {<<"-","-">>,
     <<"c","h","a","t">>,
     <<"s","e","r","v","e","-","w","e","b">>,
     <<"t","u","n","n","e","l">>}

-----------------------------------------------------------------------------
(* Characters and bytes *)

\* The printable ASCII characters, 0x20 .. 0x7E, in code order ("<60>" is the
\* grave accent, 0x60, which a TLA+ string cannot hold).
Ascii == <<" ","!","\"","#","$","%","&","'","(",")","*","+",",","-",".","/","0","1","2","3","4","5","6","7","8","9",":",";","<","=",">","?","@","A","B","C","D","E","F","G","H","I","J","K","L","M","N","O","P","Q","R","S","T","U","V","W","X","Y","Z","[","\\","]","^","_","<60>","a","b","c","d","e","f","g","h","i","j","k","l","m","n","o","p","q","r","s","t","u","v","w","x","y","z","{","|","}","~">>

AsciiSet == {Ascii[i] : i \in 1..Len(Ascii)}

InvalidByte == "<FF>"

ReplacementChar == "<FFFD>"

\* The bytes of one character (str::as_bytes, OsStr::as_bytes).
CharBytes ==
    [c \in AsciiSet \cup {InvalidByte, ReplacementChar} |->
        IF c = InvalidByte THEN <<255>>
        ELSE IF c = ReplacementChar THEN <<239, 191, 189>>
        ELSE <<31 + (CHOOSE i \in 1..Len(Ascii) : Ascii[i] = c)>>]

\* The bytes of a string, character by character.  A string of one-byte
\* characters is converted index by index; otherwise the two halves of the
\* string are converted separately (to keep the evaluation shallow).
RECURSIVE as_bytes(_)
as_bytes(s) ==
    IF \A i \in 1..Len(s) : Len(CharBytes[s[i]]) = 1
    THEN [i \in 1..Len(s) |-> CharBytes[s[i]][1]]
    ELSE IF Len(s) = 1 THEN CharBytes[s[1]]
    ELSE LET h == Len(s) \div 2
         IN  as_bytes(SubSeq(s, 1, h)) \o as_bytes(SubSeq(s, h + 1, Len(s)))

\* OsString::to_str: Some(s) when the bytes are valid UTF-8.
to_str(a) ==
    IF \E i \in 1..Len(a) : a[i] = InvalidByte THEN <<>> ELSE <<a>>

\* to_string_lossy / Path::display: invalid bytes become U+FFFD.
to_string_lossy(a) ==
    [i \in 1..Len(a) |-> IF a[i] = InvalidByte THEN ReplacementChar ELSE a[i]]

\* string_utils::to_cstring: the bytes, unchanged.
to_cstring(s) == s

HexDigits == <<"0","1","2","3","4","5","6","7","8","9","a","b","c","d","e","f">>

\* Mutant of HexByte: the low digit is written first.
HexByteLowFirst(b) == <<HexDigits[(b % 16) + 1], HexDigits[(b \div 16) + 1]>>

\* format!("{:02x}", b)
HexByte(b) == <<HexDigits[(b \div 16) + 1], HexDigits[(b % 16) + 1]>>

HexTable == [b \in 0..255 |-> HexByte(b)]

\* hex: byte k of the input is written as characters 2k-1 and 2k.
hex(input) ==
    [i \in 1..(2 * Len(input)) |-> HexTable[input[(i + 1) \div 2]][2 - (i % 2)]]

starts_with(b, p) == Len(b) >= Len(p) /\ SubSeq(b, 1, Len(p)) = p

contains(b, c) == \E i \in 1..Len(b) : b[i] = c

\* str::len: the length in bytes.
str_len(b) == Len(as_bytes(b))

-----------------------------------------------------------------------------
(* Paths (std::path) *)

\* Path::is_absolute
is_absolute(s) == Len(s) >= 1 /\ s[1] = "/"

\* The segments of s between "/" separators, empty ones dropped.
RECURSIVE Segments(_, _)
Segments(s, cur) ==
    IF s = <<>> THEN (IF cur = <<>> THEN <<>> ELSE <<cur>>)
    ELSE IF Head(s) = "/"
         THEN (IF cur = <<>> THEN <<>> ELSE <<cur>>) \o Segments(Tail(s), <<>>)
         ELSE Segments(Tail(s), Append(cur, Head(s)))

\* Path::components, the root component left implicit.
components(s) == Segments(s, <<>>)

\* PathBuf::join onto an absolute base.
join(base, s) == IF is_absolute(s) THEN components(s) ELSE base \o components(s)

\* PathBuf::pop: the path without its last component; the root stays the root.
pop(p) == IF p = <<>> THEN p ELSE SubSeq(p, 1, Len(p) - 1)

\* Path::display / to_string_lossy of an absolute path.
RECURSIVE PathStr(_)
PathStr(p) ==
    IF p = <<>> THEN <<"/">>
    ELSE (IF Len(p) = 1 THEN <<>> ELSE PathStr(pop(p)))
         \o <<"/">> \o to_string_lossy(p[Len(p)])

\* Path::display of a relative path (the result of strip_prefix).
RECURSIVE RelStr(_)
RelStr(p) ==
    IF p = <<>> THEN <<>>
    ELSE IF Len(p) = 1 THEN to_string_lossy(p[1])
    ELSE RelStr(pop(p)) \o <<"/">> \o to_string_lossy(p[Len(p)])

\* Path::strip_prefix: Ok(rest) when base is a prefix of p, else Err.
strip_prefix(p, base) ==
    IF Len(base) <= Len(p) /\ SubSeq(p, 1, Len(base)) = base
    THEN <<SubSeq(p, Len(base) + 1, Len(p))>>
    ELSE <<>>

\* Path::as_os_str of an absolute path: its bytes, nothing replaced.
RECURSIVE as_os_str(_)
as_os_str(p) ==
    IF p = <<>> THEN <<"/">>
    ELSE (IF Len(p) = 1 THEN <<>> ELSE as_os_str(pop(p))) \o <<"/">> \o p[Len(p)]

\* The body of format!("{:?}") of an OsStr: a double quote and a backslash
\* get a backslash in front, a byte that is not valid UTF-8 is written \xFF.
RECURSIVE Escaped(_)
Escaped(s) ==
    IF \A i \in 1..Len(s) : s[i] \notin {"\"", "\\", InvalidByte} THEN s
    ELSE IF Len(s) = 1
         THEN (IF s[1] = InvalidByte THEN <<"\\", "x", "F", "F">> ELSE <<"\\", s[1]>>)
    ELSE LET h == Len(s) \div 2
         IN  Escaped(SubSeq(s, 1, h)) \o Escaped(SubSeq(s, h + 1, Len(s)))

\* format!("{:?}") of a path: the escaped bytes between double quotes.
DebugPath(p) == <<"\"">> \o Escaped(as_os_str(p)) \o <<"\"">>

is_dir(p) == p \in dirs

is_file(p) == p \in DOMAIN files

-----------------------------------------------------------------------------
(* file_utils.rs *)

\* The root component of an absolute path, as Path::components yields it
\* first.  No other component can hold a "/".
ROOT_DIR == <<"/">>

\* PathBuf::new(): the empty path, which has no root.
PathBuf_new == [root |-> FALSE, names |-> <<>>]

\* PathBuf::push of one component: the root component replaces the path, any
\* other component is appended.
PathBuf_push(buf, comp) ==
    IF comp = ROOT_DIR THEN [root |-> TRUE, names |-> <<>>]
    ELSE [buf EXCEPT !.names = Append(@, comp)]

\* Mutant of PathBuf_pop: popping "/" leaves the empty path.
PathBuf_pop_root(buf) ==
    IF buf.names = <<>> THEN PathBuf_new
    ELSE [buf EXCEPT !.names = SubSeq(@, 1, Len(@) - 1)]

\* PathBuf::pop: the last component is dropped; "/" and "" have no parent and
\* stay as they are.
PathBuf_pop(buf) ==
    IF buf.names = <<>> THEN buf
    ELSE [buf EXCEPT !.names = SubSeq(@, 1, Len(@) - 1)]

\* The loop of normalize over abs.components().
RECURSIVE NormalizeFold(_, _)
NormalizeFold(comps, normalized) ==
    IF comps = <<>> THEN normalized
    ELSE LET comp == Head(comps) IN
         IF comp = <<".">> THEN NormalizeFold(Tail(comps), normalized)
         ELSE IF comp = <<".", ".">>
              THEN NormalizeFold(Tail(comps), PathBuf_pop(normalized))
         ELSE NormalizeFold(Tail(comps), PathBuf_push(normalized, comp))

\* normalize as a PathBuf: abs is the input, joined onto the current
\* directory unless it is absolute, and its components start with the root.
normalize_buf(input) ==
    NormalizeFold(<<ROOT_DIR>> \o join(cwd, input), PathBuf_new)

\* normalize as a Path, the components below the root.
normalize(input) == normalize_buf(input).names

has_dir(pth, dir) == is_dir(join(pth, dir))

\* The loop of find_dir_up: n is the number of components of pth still to be
\* iterated over, root the directory under examination, seen the set of
\* displayed paths already examined.  opts is [dir, stop], stop an Option.
RECURSIVE FindDirUpLoop(_, _, _, _)
FindDirUpLoop(root, n, seen, opts) ==
    IF n = 0 THEN <<>>
    ELSE LET s == PathStr(root) IN
         IF s \in seen THEN <<>>
         ELSE IF is_dir(join(root, opts.dir)) THEN <<join(root, opts.dir)>>
         ELSE IF opts.stop # <<>> /\ has_dir(root, opts.stop[1]) THEN <<>>
         ELSE IF root = <<>> THEN <<>>
         ELSE FindDirUpLoop(pop(root), n - 1, seen \cup {s}, opts)

\* Mutant of find_dir_up: the search starts at the working directory, not at
\* pth.
find_dir_up_from_cwd(pth, opts) == FindDirUpLoop(cwd, Len(cwd) + 1, {}, opts)

\* pth.components() of an absolute path: the root and each normal component.
find_dir_up(pth, opts) == FindDirUpLoop(pth, Len(pth) + 1, {}, opts)

\* A set of paths as a sequence, in an order fixed per set.  fs::read_dir
\* promises no order; nothing below depends on which one it is, because the
\* chooser may pick any index.
RECURSIVE SetToSeq(_)
SetToSeq(S) ==
    IF S = {} THEN <<>>
    ELSE LET x == CHOOSE y \in S : TRUE IN <<x>> \o SetToSeq(S \ {x})

\* fs::read_dir(dir): every entry directly inside dir.
read_dir(dir) ==
    SetToSeq({p \in dirs \cup DOMAIN files : p # <<>> /\ pop(p) = dir})

RECURSIVE MapJoin(_, _)
MapJoin(ps, file_name) ==
    IF ps = <<>> THEN <<>>
    ELSE <<join(Head(ps), file_name)>> \o MapJoin(Tail(ps), file_name)

\* A discovery that also descends into the subdirectories of the
\* subdirectories.
files_matching_deep(dir, file_name) ==
    IF is_dir(dir)
    THEN LET subs == SelectSeq(read_dir(dir), is_dir)
             deeper == SelectSeq(SetToSeq({q \in dirs : q # <<>> /\ pop(q) # <<>>
                                                        /\ pop(pop(q)) = dir}),
                                 is_dir)
             cand == MapJoin(<<dir>> \o subs \o deeper, file_name)
         IN  SelectSeq(cand, is_file)
    ELSE <<>>

files_matching(dir, file_name) ==
    IF is_dir(dir)
    THEN LET subs == SelectSeq(read_dir(dir), is_dir)
             cand == MapJoin(<<dir>> \o subs, file_name)
         IN  SelectSeq(cand, is_file)
    ELSE <<>>

-----------------------------------------------------------------------------
(* main.rs: configuration discovery and the container identifier *)

\* read_json: Some(JsonResults), or None where the code panics (the file
\* cannot be read, or its content does not parse).
read_json(file_name) ==
    IF files[file_name].readable /\ files[file_name].json # <<>>
    THEN <<[file_name |-> file_name, dev_container |-> files[file_name].json[1]]>>
    ELSE <<>>

RECURSIVE MapReadJson(_)
MapReadJson(names) ==
    IF names = <<>> THEN <<>>
    ELSE <<read_json(Head(names))>> \o MapReadJson(Tail(names))

container_id(root, chosen) ==
    IF chosen = join(join(root, DEVCONTAINER_DIR), CONFIG_FILE)
    THEN PathStr(root)
    ELSE <<"{","\"","h","o","s","t","P","a","t","h","\"",":">>
         \o DebugPath(root)
         \o <<",","\"","l","o","c","a","l","D","o","c","k","e","r","\"",":","f","a","l","s","e",",","\"","s","e","t","t","i","n","g","s","\"",":","{","\"","c","o","n","t","e","x","t","\"",":","\"","d","e","s","k","t","o","p","-","l","i","n","u","x","\"","}",",","\"","c","o","n","f","i","g","F","i","l","e","\"",":","{","\"","$","m","i","d","\"",":","1",",","\"","f","s","P","a","t","h","\"",":">>
         \o DebugPath(chosen)
         \o <<",","\"","e","x","t","e","r","n","a","l","\"",":","\"","f","i","l","e",":","/","/">>
         \o PathStr(chosen)
         \o <<"\"",",","\"","p","a","t","h","\"",":">>
         \o DebugPath(chosen)
         \o <<",","\"","s","c","h","e","m","e","\"",":","\"","f","i","l","e","\"","}","}">>

\* The last segment of root (root.iter().next_back()); the root directory's
\* only component is "/".
LastSegment(root) ==
    IF root = <<>> THEN <<"/">> ELSE to_string_lossy(root[Len(root)])

\* Mutant of dir_properties: a file that cannot be read or parsed is skipped.
dir_properties_skip_bad(root, selection) ==
    LET read == SelectSeq(MapReadJson(files_matching(root, CONFIG_FILE)),
                          LAMBDA r : r # <<>>) IN
    IF Len(read) = 0
    THEN [panic |-> FALSE, value |-> <<>>, chose |-> FALSE]
    ELSE IF Len(read) > 1 /\ selection \notin 1..Len(read)
    THEN [panic |-> TRUE, value |-> <<>>, chose |-> TRUE]
    ELSE LET chosen == IF Len(read) = 1 THEN read[1][1] ELSE read[selection][1]
             project == pop(root)
             id == container_id(project, chosen.file_name)
             folder == IF chosen.dev_container.workspace_folder # <<>>
                       THEN chosen.dev_container.workspace_folder[1]
                       ELSE <<"/","w","o","r","k","s","p","a","c","e","s","/">>
                            \o LastSegment(project)
         IN  [panic |-> FALSE,
              value |-> <<[hex |-> hex(as_bytes(id)), folder |-> folder]>>,
              chose |-> Len(read) > 1]

\* Mutant of dir_properties: the chooser is asked whenever there is a match.
dir_properties_always_choose(root, selection) ==
    LET read == MapReadJson(files_matching(root, CONFIG_FILE)) IN
    IF \E i \in 1..Len(read) : read[i] = <<>>
    THEN [panic |-> TRUE, value |-> <<>>, chose |-> FALSE]
    ELSE IF Len(read) = 0
    THEN [panic |-> FALSE, value |-> <<>>, chose |-> FALSE]
    ELSE IF Len(read) > 1 /\ selection \notin 1..Len(read)
    THEN [panic |-> TRUE, value |-> <<>>, chose |-> TRUE]
    ELSE LET chosen == IF Len(read) = 1 THEN read[1][1] ELSE read[selection][1]
             project == pop(root)
             id == container_id(project, chosen.file_name)
             folder == IF chosen.dev_container.workspace_folder # <<>>
                       THEN chosen.dev_container.workspace_folder[1]
                       ELSE <<"/","w","o","r","k","s","p","a","c","e","s","/">>
                            \o LastSegment(project)
         IN  [panic |-> FALSE,
              value |-> <<[hex |-> hex(as_bytes(id)), folder |-> folder]>>,
              chose |-> TRUE]

\* dir_properties(root), given what the interactive chooser would answer:
\* selection is an index into the matches, or 0 when the selection fails.
\* The outcome: panic (the run aborts), value (Option<DirProperties>) and
\* chose (choose() was called).
dir_properties(root, selection) ==
    LET read == MapReadJson(files_matching(root, CONFIG_FILE)) IN
    IF \E i \in 1..Len(read) : read[i] = <<>>
    THEN [panic |-> TRUE, value |-> <<>>, chose |-> FALSE]
    ELSE IF Len(read) = 0
    THEN [panic |-> FALSE, value |-> <<>>, chose |-> FALSE]
    ELSE IF Len(read) > 1 /\ selection \notin 1..Len(read)
    THEN [panic |-> TRUE, value |-> <<>>, chose |-> TRUE]
    ELSE LET chosen == IF Len(read) = 1 THEN read[1][1] ELSE read[selection][1]
             project == pop(root)
             id == container_id(project, chosen.file_name)
             folder == IF chosen.dev_container.workspace_folder # <<>>
                       THEN chosen.dev_container.workspace_folder[1]
                       ELSE <<"/","w","o","r","k","s","p","a","c","e","s","/">>
                            \o LastSegment(project)
         IN  [panic |-> FALSE,
              value |-> <<[hex |-> hex(as_bytes(id)), folder |-> folder]>>,
              chose |-> Len(read) > 1]

-----------------------------------------------------------------------------
(* main.rs: rewriting one path candidate *)

URI_PREFIX == <<"-","u","r","i","=","v","s","c","o","d","e","-","r","e","m","o","t","e",":","/","/","d","e","v","-","c","o","n","t","a","i","n","e","r","+">>

FOLDER == <<"f","o","l","d","e","r">>

FILE == <<"f","i","l","e">>

\* The format! of to_devcontainer_uri.
FormatUri(pth, props, rel) ==
    <<"-","-">> \o (IF is_dir(pth) THEN FOLDER ELSE FILE) \o URI_PREFIX
    \o props.hex \o props.folder \o <<"/">> \o RelStr(rel)

\* Mutant of PassThrough: the normalized path is handed on in place of the
\* argument.
PassThroughNormalized(arg) == PathStr(normalize(arg))

\* main.rs 204-206: no marker directory, or no configuration in it: the
\* argument itself.
PassThrough(arg) == to_cstring(arg)

\* Mutant of CacheEntry: the entry is computed and overwritten on every call.
CacheEntryAlwaysMiss(root, c, selection) ==
    LET Insert(dp) ==
            [panic |-> dp.panic,
             cache |-> IF dp.panic THEN c ELSE (root :> dp.value) @@ c,
             resolved |-> <<root>>,
             chose |-> dp.chose]
    IN  Insert(dir_properties(root, selection))

\* cache.entry(root).or_insert_with(|| dir_properties(&root)): the cache
\* afterwards, whether dir_properties panicked, and whether it ran and chose.
CacheEntry(root, c, selection) ==
    IF root \in DOMAIN c
    THEN [panic |-> FALSE, cache |-> c, resolved |-> <<>>, chose |-> FALSE]
    ELSE LET Insert(dp) ==
                 [panic |-> dp.panic,
                  cache |-> IF dp.panic THEN c ELSE (root :> dp.value) @@ c,
                  resolved |-> <<root>>,
                  chose |-> dp.chose]
         IN  Insert(dir_properties(root, selection))

\* to_devcontainer_uri(arg, dir, cache), given the chooser's answer.  The
\* outcome: panic, out (the CString), cache (the cache afterwards), resolved
\* (Some(root) when dir_properties was called on root) and chose.
to_devcontainer_uri(arg, dir, c, selection) ==
    LET pth == normalize(arg)
        found == find_dir_up(pth, [dir |-> dir, stop |-> <<GIT_DIR>>])
    IN  IF found = <<>>
        THEN [panic |-> FALSE, out |-> PassThrough(arg), cache |-> c,
              resolved |-> <<>>, chose |-> FALSE]
        ELSE
        LET Finish(e) ==
                LET rel == strip_prefix(pth, pop(found[1]))
                    r == [panic |-> e.panic, out |-> PassThrough(arg),
                          cache |-> e.cache, resolved |-> e.resolved,
                          chose |-> e.chose]
                IN  IF e.panic \/ e.cache[found[1]] = <<>> THEN r
                    ELSE IF rel = <<>> THEN [r EXCEPT !.panic = TRUE]
                    ELSE [r EXCEPT !.out = FormatUri(pth, e.cache[found[1]][1], rel[1])]
        IN  Finish(CacheEntry(found[1], c, selection))

-----------------------------------------------------------------------------
(* The filesystems and argument vectors the model runs on *)

Proj == <<<<"p">>>>

Cwd == <<<<"p">>, <<"s">>>>

Marker == join(Proj, DEVCONTAINER_DIR)

SubDir == join(Marker, <<"b">>)

DefaultConfig == join(Marker, CONFIG_FILE)

SubConfig == join(SubDir, CONFIG_FILE)

SourceFile == join(Cwd, <<"f">>)

CwdMarker == join(Cwd, DEVCONTAINER_DIR)

CwdConfig == join(CwdMarker, CONFIG_FILE)

\* File contents: readable, and json = Some(DevContainer) when it parses.
Plain == [readable |-> TRUE, json |-> <<>>]

Config(folder) ==
    [readable |-> TRUE, json |-> <<[name |-> <<>>, workspace_folder |-> folder]>>]

Unreadable == [readable |-> FALSE, json |-> <<>>]

BaseDirs == {<<>>, Proj, Cwd}

Filesystems ==
    { \* no marker directory
      [dirs |-> BaseDirs, files |-> (SourceFile :> Plain)],
      \* a marker directory without configuration
      [dirs |-> BaseDirs \cup {Marker}, files |-> (SourceFile :> Plain)],
      \* the default configuration, no workspaceFolder
      [dirs |-> BaseDirs \cup {Marker},
       files |-> (SourceFile :> Plain) @@ (DefaultConfig :> Config(<<>>))],
      \* two configurations: workspaceFolder "w" and workspaceFolder "/w"
      [dirs |-> BaseDirs \cup {Marker, SubDir},
       files |-> (SourceFile :> Plain) @@ (DefaultConfig :> Config(<<<<"w">>>>))
                 @@ (SubConfig :> Config(<<<<"/","w">>>>))],
      \* two configurations, one of which does not parse
      [dirs |-> BaseDirs \cup {Marker, SubDir},
       files |-> (SourceFile :> Plain) @@ (DefaultConfig :> Plain)
                 @@ (SubConfig :> Config(<<>>))],
      \* a marker directory in the working directory and one above it
      [dirs |-> BaseDirs \cup {Marker, CwdMarker},
       files |-> (SourceFile :> Plain) @@ (DefaultConfig :> Config(<<>>))
                 @@ (CwdConfig :> Config(<<<<"/","w">>>>))],
      \* a .git directory in the working directory, below the marker
      [dirs |-> BaseDirs \cup {Marker, join(Cwd, GIT_DIR)},
       files |-> (SourceFile :> Plain) @@ (DefaultConfig :> Config(<<>>))] }

\* argv[0].  process_args never reads it (it.next() drops it), so one value
\* stands for all; the one chosen is a terminal parameter, the name that
\* would change the most if it were classified.
Arg0s == {<<"c","h","a","t">>}

\* The arguments after argv[0].
Alphabet ==
    { <<"-","-","l","o","g">>, <<"-","d">>, <<"-","-">>, <<"-","-","f","o","o">>,
      <<"-","w","a">>, <<"f">>, <<".",".">>, <<InvalidByte>> }

ArgVectors ==
    { <<a0>> \o rest : a0 \in Arg0s,
                       rest \in UNION {[1..n -> Alphabet] : n \in 0..MaxArgs} }

\* What the interactive chooser can answer when handling arg makes
\* dir_properties call it: an index into the items, or 0 for no selection.
\* Where it is not called there is nothing to answer (0 stands for that).
Selections(arg) ==
    LET found == find_dir_up(normalize(arg),
                             [dir |-> DEVCONTAINER_DIR, stop |-> <<GIT_DIR>>])
        n == IF found = <<>> \/ found[1] \in DOMAIN cache THEN 0
             ELSE Len(files_matching(found[1], CONFIG_FILE))
    IN  IF n > 1 THEN 0..n ELSE {0}

-----------------------------------------------------------------------------
(* process_args *)

Init ==
    /\ argv \in ArgVectors
    /\ cwd = Cwd
    /\ \E fs \in Filesystems : dirs = fs.dirs /\ files = fs.files
    /\ pc = "start"
    /\ args = argv
    /\ it = 1
    /\ result = <<>>
    /\ cache = <<>>
    /\ warnings = <<>>
    /\ kinds = <<>>
    /\ resolved = <<>>
    /\ chooser = <<>>
    /\ call = [fn |-> "process_args"]

\* Mutant of Start: argument 0 is left in the iterator and classified.
StartClassifiesArg0 ==
    /\ pc = "start"
    /\ args' = IF Len(args) = 1 THEN Append(args, <<".">>) ELSE args
    /\ result' = <<to_cstring(CODE)>>
    /\ kinds' = <<"code">>
    /\ it' = 1
    /\ cache' = <<>>
    /\ pc' = "scan"
    /\ UNCHANGED <<call, argv, cwd, dirs, files, warnings, resolved, chooser>>

\* Mutant of Start: no "." is appended to a vector of one element.
StartWithoutImplicitDot ==
    /\ pc = "start"
    /\ args' = args
    /\ result' = <<to_cstring(CODE)>>
    /\ kinds' = <<"code">>
    /\ it' = 2
    /\ cache' = <<>>
    /\ pc' = "scan"
    /\ UNCHANGED <<call, argv, cwd, dirs, files, warnings, resolved, chooser>>

\* main.rs 212-227: the implicit ".", argument 0 and the empty cache.
Start ==
    /\ pc = "start"
    /\ args' = IF Len(args) = 1 THEN Append(args, <<".">>) ELSE args
    /\ result' = <<to_cstring(CODE)>>
    /\ kinds' = <<"code">>
    /\ it' = 2
    /\ cache' = <<>>
    /\ pc' = "scan"
    /\ UNCHANGED <<call, argv, cwd, dirs, files, warnings, resolved, chooser>>

Scanning == pc = "scan" /\ it <= Len(args)

\* Mutant of Take: the flag takes no values.
TakeNone(sz) == <<>>

\* it.by_ref().take(sz): the next sz elements, or as many as are left.
Take(sz) == SubSeq(args, it + 1, IF it + sz <= Len(args) THEN it + sz ELSE Len(args))

\* main.rs 230-234: a flag of the arity table and its values.
ArityFlag ==
    /\ Scanning
    /\ to_str(args[it]) # <<>>
    /\ to_str(args[it])[1] \in DOMAIN PARAM_SIZE
    /\ LET sz == PARAM_SIZE[to_str(args[it])[1]]
           values == Take(sz)
       IN  /\ result' = Append(result, to_cstring(args[it]))
                        \o [i \in 1..Len(values) |-> to_cstring(values[i])]
           /\ kinds' = Append(kinds, "arity") \o [i \in 1..Len(values) |-> "value"]
           /\ it' = it + 1 + Len(values)
    /\ UNCHANGED <<call, argv, cwd, dirs, files, pc, args, cache, warnings, resolved, chooser>>

\* Mutant of Terminal: the terminal parameter is pushed and the scan goes on.
TerminalContinues ==
    /\ Scanning
    /\ to_str(args[it]) # <<>>
    /\ to_str(args[it])[1] \notin DOMAIN PARAM_SIZE
    /\ to_str(args[it])[1] \in TERMINAL_PARAM
    /\ result' = Append(result, to_cstring(args[it]))
    /\ kinds' = Append(kinds, "terminal")
    /\ it' = it + 1
    /\ UNCHANGED <<call, argv, cwd, dirs, files, pc, args, cache, warnings, resolved, chooser>>

\* main.rs 235-241: a terminal parameter and everything after it.
Terminal ==
    /\ Scanning
    /\ to_str(args[it]) # <<>>
    /\ to_str(args[it])[1] \notin DOMAIN PARAM_SIZE
    /\ to_str(args[it])[1] \in TERMINAL_PARAM
    /\ LET rest == SubSeq(args, it + 1, Len(args))
       IN  /\ result' = Append(result, to_cstring(args[it]))
                        \o [i \in 1..Len(rest) |-> to_cstring(rest[i])]
           /\ kinds' = Append(kinds, "terminal") \o [i \in 1..Len(rest) |-> "rest"]
    /\ it' = Len(args) + 1
    /\ UNCHANGED <<call, argv, cwd, dirs, files, pc, args, cache, warnings, resolved, chooser>>

\* Mutant of DoubleDash: the parameter takes the next argument as its value.
DoubleDashTakesValue ==
    /\ Scanning
    /\ to_str(args[it]) # <<>>
    /\ to_str(args[it])[1] \notin DOMAIN PARAM_SIZE
    /\ to_str(args[it])[1] \notin TERMINAL_PARAM
    /\ starts_with(to_str(args[it])[1], <<"-","-">>)
    /\ LET values == SubSeq(args, it + 1, IF it < Len(args) THEN it + 1 ELSE Len(args))
       IN  /\ result' = Append(result, to_cstring(args[it]))
                        \o [i \in 1..Len(values) |-> to_cstring(values[i])]
           /\ kinds' = Append(kinds, "ddash") \o [i \in 1..Len(values) |-> "value"]
           /\ it' = it + 1 + Len(values)
    /\ UNCHANGED <<call, argv, cwd, dirs, files, pc, args, cache, warnings, resolved, chooser>>

\* main.rs 242-245: any other parameter starting with "--".
DoubleDash ==
    /\ Scanning
    /\ to_str(args[it]) # <<>>
    /\ to_str(args[it])[1] \notin DOMAIN PARAM_SIZE
    /\ to_str(args[it])[1] \notin TERMINAL_PARAM
    /\ starts_with(to_str(args[it])[1], <<"-","-">>)
    /\ result' = Append(result, to_cstring(args[it]))
    /\ kinds' = Append(kinds, "ddash")
    /\ it' = it + 1
    /\ UNCHANGED <<call, argv, cwd, dirs, files, pc, args, cache, warnings, resolved, chooser>>

\* Mutant of SingleDash: the warning is printed for every parameter longer
\* than two bytes, whatever its letters.
SingleDashWarnsOnLength ==
    /\ Scanning
    /\ to_str(args[it]) # <<>>
    /\ LET b == to_str(args[it])[1] IN
        /\ b \notin DOMAIN PARAM_SIZE
        /\ b \notin TERMINAL_PARAM
        /\ ~starts_with(b, <<"-","-">>)
        /\ starts_with(b, <<"-">>)
        /\ warnings' = IF str_len(b) > 2
                       THEN Append(warnings, COALESCED_WARNING) ELSE warnings
    /\ result' = Append(result, to_cstring(args[it]))
    /\ kinds' = Append(kinds, "sdash")
    /\ it' = it + 1
    /\ UNCHANGED <<call, argv, cwd, dirs, files, pc, args, cache, resolved, chooser>>

\* main.rs 246-255: any other parameter starting with "-".
SingleDash ==
    /\ Scanning
    /\ to_str(args[it]) # <<>>
    /\ LET b == to_str(args[it])[1] IN
        /\ b \notin DOMAIN PARAM_SIZE
        /\ b \notin TERMINAL_PARAM
        /\ ~starts_with(b, <<"-","-">>)
        /\ starts_with(b, <<"-">>)
        /\ warnings' = IF /\ str_len(b) > 2
                          /\ (contains(b, "a") \/ contains(b, "d")
                              \/ contains(b, "g") \/ contains(b, "m"))
                       THEN Append(warnings, COALESCED_WARNING) ELSE warnings
    /\ result' = Append(result, to_cstring(args[it]))
    /\ kinds' = Append(kinds, "sdash")
    /\ it' = it + 1
    /\ UNCHANGED <<call, argv, cwd, dirs, files, pc, args, cache, resolved, chooser>>

\* The push of to_devcontainer_uri's result, or its panic.
Rewrite(kind, selection) ==
    LET r == to_devcontainer_uri(args[it], DEVCONTAINER_DIR, cache, selection) IN
    /\ resolved' = resolved \o r.resolved
    /\ chooser' = IF r.chose THEN chooser \o r.resolved ELSE chooser
    /\ IF r.panic
       THEN /\ pc' = "panic"
            /\ UNCHANGED <<result, kinds, it, cache>>
       ELSE /\ result' = Append(result, r.out)
            /\ kinds' = Append(kinds, kind)
            /\ it' = it + 1
            /\ cache' = r.cache
            /\ pc' = pc
    /\ UNCHANGED <<call, argv, cwd, dirs, files, args, warnings>>

\* main.rs 256-264: valid text that is no parameter is a file name.
PathCandidate ==
    /\ Scanning
    /\ to_str(args[it]) # <<>>
    /\ LET b == to_str(args[it])[1] IN
        /\ b \notin DOMAIN PARAM_SIZE
        /\ b \notin TERMINAL_PARAM
        /\ ~starts_with(b, <<"-","-">>)
        /\ ~starts_with(b, <<"-">>)
    /\ \E selection \in Selections(args[it]) : Rewrite("path", selection)

\* Mutant of InvalidUtf8: the argument is pushed as it is.
InvalidUtf8PassedThrough ==
    /\ Scanning
    /\ to_str(args[it]) = <<>>
    /\ result' = Append(result, to_cstring(args[it]))
    /\ kinds' = Append(kinds, "nonutf8")
    /\ it' = it + 1
    /\ UNCHANGED <<call, argv, cwd, dirs, files, pc, args, cache, warnings, resolved, chooser>>

\* main.rs 265-273: invalid UTF-8 can still be used as a path.
InvalidUtf8 ==
    /\ Scanning
    /\ to_str(args[it]) = <<>>
    /\ \E selection \in Selections(args[it]) : Rewrite("nonutf8", selection)

\* main.rs 278-279: the loop is over; the vector is returned.
Return ==
    /\ pc = "scan"
    /\ it > Len(args)
    /\ pc' = "done"
    /\ UNCHANGED <<call, argv, cwd, dirs, files, args, it, result, cache, warnings,
                   kinds, resolved, chooser>>

Next ==
    \/ Start
    \/ ArityFlag
    \/ Terminal
    \/ DoubleDash
    \/ SingleDash
    \/ PathCandidate
    \/ InvalidUtf8
    \/ Return

Spec == Init /\ [][Next]_vars

-----------------------------------------------------------------------------
(* process_args on single-dash parameters of every length *)

\* Arguments after argv[0]: single-dash parameters that are no key of the
\* arity table, with and without the letters a, d, g, m, of length 2 and 3,
\* among one argument of every other class.
SingleDashAlphabet ==
    { <<"-","-","l","o","g">>, <<"-","-">>, <<"-","-","f","o","o">>,
      <<"-","w","a">>, <<"-","w","x">>, <<"-","w">>, <<"f">>, <<InvalidByte>> }

SingleDashVectors ==
    { <<a0>> \o rest : a0 \in Arg0s,
                       rest \in UNION {[1..n -> SingleDashAlphabet] : n \in 0..MaxArgs} }

\* The filesystems with at most the default configuration.
PlainFilesystems == {fs \in Filesystems : fs.dirs \subseteq BaseDirs \cup {Marker}}

InitSingleDash ==
    /\ argv \in SingleDashVectors
    /\ cwd = Cwd
    /\ \E fs \in PlainFilesystems : dirs = fs.dirs /\ files = fs.files
    /\ pc = "start"
    /\ args = argv
    /\ it = 1
    /\ result = <<>>
    /\ cache = <<>>
    /\ warnings = <<>>
    /\ kinds = <<>>
    /\ resolved = <<>>
    /\ chooser = <<>>
    /\ call = [fn |-> "process_args"]

SpecSingleDash == InitSingleDash /\ [][Next]_vars

-----------------------------------------------------------------------------
(* process_args over marker directories of every content *)

RootMarker == join(<<>>, DEVCONTAINER_DIR)

RootConfig == join(RootMarker, CONFIG_FILE)

\* A directory of the working directory whose name is the byte 0xFF.
InvalidProj == join(Cwd, <<InvalidByte>>)

InvalidMarker == join(InvalidProj, DEVCONTAINER_DIR)

InvalidConfig == join(InvalidMarker, CONFIG_FILE)

\* Filesystems whose marker directory holds no configuration, one, or two,
\* readable and parsing or not, one whose project root is "/" and one whose
\* project root has a name that is not valid UTF-8.
DiscoveryFilesystems ==
    { \* no configuration
      [dirs |-> BaseDirs \cup {Marker}, files |-> (SourceFile :> Plain)],
      \* the default configuration alone, no workspaceFolder
      [dirs |-> BaseDirs \cup {Marker},
       files |-> (SourceFile :> Plain) @@ (DefaultConfig :> Config(<<>>))],
      \* a configuration in a subdirectory alone, workspaceFolder "/w"
      [dirs |-> BaseDirs \cup {Marker, SubDir},
       files |-> (SourceFile :> Plain) @@ (SubConfig :> Config(<<<<"/","w">>>>))],
      \* two configurations: workspaceFolder "w" and none
      [dirs |-> BaseDirs \cup {Marker, SubDir},
       files |-> (SourceFile :> Plain) @@ (DefaultConfig :> Config(<<<<"w">>>>))
                 @@ (SubConfig :> Config(<<>>))],
      \* two configurations, one of which cannot be read
      [dirs |-> BaseDirs \cup {Marker, SubDir},
       files |-> (SourceFile :> Plain) @@ (DefaultConfig :> Unreadable)
                 @@ (SubConfig :> Config(<<>>))],
      \* two configurations, one of which does not parse
      [dirs |-> BaseDirs \cup {Marker, SubDir},
       files |-> (SourceFile :> Plain) @@ (DefaultConfig :> Config(<<>>))
                 @@ (SubConfig :> Plain)],
      \* the marker directory in "/", no workspaceFolder
      [dirs |-> BaseDirs \cup {RootMarker},
       files |-> (SourceFile :> Plain) @@ (RootConfig :> Config(<<>>))],
      \* a project whose name is not valid UTF-8, no workspaceFolder
      [dirs |-> BaseDirs \cup {InvalidProj, InvalidMarker},
       files |-> (SourceFile :> Plain) @@ (InvalidConfig :> Config(<<>>))] }

\* One argument of every class.
DiscoveryAlphabet ==
    { <<"-","-","l","o","g">>, <<"-","-">>, <<"-","-","f","o","o">>,
      <<"-","w","a">>, <<"f">>, <<InvalidByte>> }

DiscoveryVectors ==
    { <<a0>> \o rest : a0 \in Arg0s,
                       rest \in UNION {[1..n -> DiscoveryAlphabet] : n \in 0..MaxArgs} }

InitDiscovery ==
    /\ argv \in DiscoveryVectors
    /\ cwd = Cwd
    /\ \E fs \in DiscoveryFilesystems : dirs = fs.dirs /\ files = fs.files
    /\ pc = "start"
    /\ args = argv
    /\ it = 1
    /\ result = <<>>
    /\ cache = <<>>
    /\ warnings = <<>>
    /\ kinds = <<>>
    /\ resolved = <<>>
    /\ chooser = <<>>
    /\ call = [fn |-> "process_args"]

SpecDiscovery == InitDiscovery /\ [][Next]_vars

-----------------------------------------------------------------------------
(* process_args over path candidates of every kind (relative, absolute,    *)
(* above and beside the working directory, not valid UTF-8) and marker and *)
(* stop directories at every level.                                        *)

Other == <<<<"q">>>>

\* The directories a marker or a stop directory may stand in.
StripLevels == {<<>>, Proj, Cwd, Other}

\* Marker directories, each with the default configuration, in at most two
\* of the levels, and at most one .git directory.
StripFilesystems ==
    {[dirs |-> StripLevels \cup {join(d, DEVCONTAINER_DIR) : d \in ms}
                           \cup {join(d, GIT_DIR) : d \in gs},
      files |-> [f \in {join(join(d, DEVCONTAINER_DIR), CONFIG_FILE) : d \in ms}
                    |-> Config(<<>>)]] :
        ms \in {m \in SUBSET StripLevels : Cardinality(m) \in 1..2},
        gs \in {g \in SUBSET {Proj, Cwd} : Cardinality(g) <= 1}}

StripAlphabet ==
    { <<"-","-","l","o","g">>, <<"-","-">>, <<"-","-","f","o","o">>, <<"-","w","a">>,
      <<"f">>, <<".",".">>, <<"/">>, <<"/","q","/","f">>, <<InvalidByte>> }

StripVectors ==
    { <<a0>> \o rest : a0 \in Arg0s,
                       rest \in UNION {[1..n -> StripAlphabet] : n \in 0..MaxPaths} }

InitStripPrefix ==
    /\ argv \in StripVectors
    /\ cwd = Cwd
    /\ \E fs \in StripFilesystems : dirs = fs.dirs /\ files = fs.files
    /\ pc = "start"
    /\ args = argv
    /\ it = 1
    /\ result = <<>>
    /\ cache = <<>>
    /\ warnings = <<>>
    /\ kinds = <<>>
    /\ resolved = <<>>
    /\ chooser = <<>>
    /\ call = [fn |-> "process_args"]

SpecStripPrefix == InitStripPrefix /\ [][Next]_vars

-----------------------------------------------------------------------------
(* The functions of file_utils.rs, string_utils.rs and main.rs run on their *)
(* own: call holds the function's name, its arguments and what it returned *)
(* (ret, an Option that is None until the function has returned).          *)

\* The variables of process_args, which is not running.
frame == <<argv, pc, args, it, result, cache, warnings, kinds, resolved, chooser>>

NotRunning ==
    /\ pc = "idle"
    /\ argv = <<>>
    /\ args = <<>>
    /\ it = 0
    /\ result = <<>>
    /\ cache = <<>>
    /\ warnings = <<>>
    /\ kinds = <<>>
    /\ resolved = <<>>
    /\ chooser = <<>>

-----------------------------------------------------------------------------
(* normalize *)

\* The segments a path string is made of.
NormalizeSegments == {<<".">>, <<".", ".">>, <<"a">>}

\* The segments joined with "/".
RECURSIVE JoinSegments(_)
JoinSegments(segs) ==
    IF segs = <<>> THEN <<>>
    ELSE IF Len(segs) = 1 THEN segs[1]
    ELSE segs[1] \o <<"/">> \o JoinSegments(Tail(segs))

\* Path strings, relative and absolute, of up to MaxSegments segments.
NormalizeInputs ==
    { lead \o JoinSegments(segs) :
        lead \in {<<>>, <<"/">>},
        segs \in UNION {[1..n -> NormalizeSegments] : n \in 0..MaxSegments} }

InitNormalize ==
    /\ NotRunning
    /\ cwd \in {Cwd, <<>>}
    /\ dirs = BaseDirs
    /\ files = <<>>
    /\ call \in {[fn |-> "normalize", input |-> i, ret |-> <<>>] : i \in NormalizeInputs}

\* file_utils.rs 10-35
NormalizeReturns ==
    /\ call.fn = "normalize"
    /\ call.ret = <<>>
    /\ call' = [call EXCEPT !.ret = <<normalize_buf(call.input)>>]
    /\ UNCHANGED <<cwd, dirs, files, frame>>

NextNormalize == NormalizeReturns

SpecNormalize == InitNormalize /\ [][NextNormalize]_vars

-----------------------------------------------------------------------------
(* container_id *)

\* Directory names: a plain one, one with a double quote, one that is not
\* valid UTF-8.
ContainerNames == {<<"p">>, <<"q", "\"">>, <<InvalidByte>>}

\* Project roots of up to MaxRootDepth components, "/" included.
ContainerRoots == UNION {[1..n -> ContainerNames] : n \in 0..MaxRootDepth}

\* The configuration files under a root: the default one, one in each
\* subdirectory of the marker directory, and one beside the marker directory.
ChosenUnder(root) ==
    {join(join(root, DEVCONTAINER_DIR), CONFIG_FILE), join(root, CONFIG_FILE)}
    \cup {join(join(join(root, DEVCONTAINER_DIR), n), CONFIG_FILE) : n \in ContainerNames}

InitContainerId ==
    /\ NotRunning
    /\ cwd = Cwd
    /\ dirs = BaseDirs
    /\ files = <<>>
    /\ call \in {[fn |-> "container_id", root |-> r, chosen |-> c, ret |-> <<>>] :
                    r \in ContainerRoots,
                    c \in UNION {ChosenUnder(r2) : r2 \in ContainerRoots}}
    /\ call.chosen \in ChosenUnder(call.root)

\* main.rs 116-130
ContainerIdReturns ==
    /\ call.fn = "container_id"
    /\ call.ret = <<>>
    /\ call' = [call EXCEPT !.ret = <<container_id(call.root, call.chosen)>>]
    /\ UNCHANGED <<cwd, dirs, files, frame>>

NextContainerId == ContainerIdReturns

SpecContainerId == InitContainerId /\ [][NextContainerId]_vars

-----------------------------------------------------------------------------
(* hex *)

\* Bytes at the edges of the two digits: below 16 (a leading zero), the first
\* with a letter digit, the largest of one digit, both ends of the range.
HexInputBytes == {0, 1, 9, 10, 15, 16, 127, 128, 255}

HexInputs == UNION {[1..n -> HexInputBytes] : n \in 0..MaxBytes}

InitHex ==
    /\ NotRunning
    /\ cwd = Cwd
    /\ dirs = BaseDirs
    /\ files = <<>>
    /\ call \in {[fn |-> "hex", input |-> b, ret |-> <<>>] : b \in HexInputs}

\* string_utils.rs 22-28
HexReturns ==
    /\ call.fn = "hex"
    /\ call.ret = <<>>
    /\ call' = [call EXCEPT !.ret = <<hex(call.input)>>]
    /\ UNCHANGED <<cwd, dirs, files, frame>>

NextHex == HexReturns

SpecHex == InitHex /\ [][NextHex]_vars

-----------------------------------------------------------------------------
(* files_matching on its own: the marker path /m, which is a directory, a  *)
(* file or absent, over every filesystem made of the entries below.        *)

MatchDir == <<<<"m">>>>

MatchSub == join(MatchDir, <<"a">>)

MatchOther == join(MatchDir, <<"c">>)

MatchDeep == join(MatchSub, <<"b">>)

\* The entries a filesystem may hold, each as a directory or as a file.
MatchEntries ==
    {MatchDir, MatchSub, MatchOther, MatchDeep}
        \cup {join(d, CONFIG_FILE) : d \in {MatchDir, MatchSub, MatchOther, MatchDeep}}

\* Every entry lies in a directory.
MatchFilesystems ==
    {fs \in [dirs : SUBSET MatchEntries, files : SUBSET MatchEntries] :
        /\ fs.dirs \cap fs.files = {}
        /\ \A e \in fs.dirs \cup fs.files : pop(e) = <<>> \/ pop(e) \in fs.dirs}

InitFilesMatching ==
    /\ NotRunning
    /\ cwd = <<>>
    /\ \E fs \in MatchFilesystems :
          /\ dirs = {<<>>} \cup fs.dirs
          /\ files = [f \in fs.files |-> Plain]
    /\ call = [fn |-> "files_matching", dir |-> MatchDir,
               file_name |-> CONFIG_FILE, ret |-> <<>>]

\* file_utils.rs 85-103
FilesMatchingReturns ==
    /\ call.fn = "files_matching"
    /\ call.ret = <<>>
    /\ call' = [call EXCEPT !.ret = <<files_matching(call.dir, call.file_name)>>]
    /\ UNCHANGED <<cwd, dirs, files, frame>>

NextFilesMatching == FilesMatchingReturns

SpecFilesMatching == InitFilesMatching /\ [][NextFilesMatching]_vars

-----------------------------------------------------------------------------
(* find_dir_up, one iteration of its loop at a time.  call holds pth and   *)
(* opts, the locals root and seen, left (how many components the iterator  *)
(* pth.components().rev() has yet to yield), and two records of the walk:  *)
(* examined, the directories tested in order, and exit, the way out taken. *)

\* The normalized path of d components.
PathOfDepth(d) == [k \in 1..d |-> <<"a">>]

\* The ancestor of pth k levels up (pth itself for k = 0).
Level(pth, k) == SubSeq(pth, 1, Len(pth) - k)

\* pth and its ancestors, with the marker directory at the levels in ms and
\* the stop directory at the levels in ss.
DirsWith(pth, ms, ss) ==
    {Level(pth, k) : k \in 0..Len(pth)}
    \cup {join(Level(pth, k), DEVCONTAINER_DIR) : k \in ms}
    \cup {join(Level(pth, k), GIT_DIR) : k \in ss}

FindOptions == {[dir |-> DEVCONTAINER_DIR, stop |-> <<GIT_DIR>>],
                [dir |-> DEVCONTAINER_DIR, stop |-> <<>>]}

InitFindDirUp ==
    /\ NotRunning
    /\ cwd = Cwd
    /\ files = <<>>
    /\ \E d \in 0..MaxDepth, o \in FindOptions :
          \E ms \in SUBSET (0..d), ss \in SUBSET (0..d) :
             /\ dirs = DirsWith(PathOfDepth(d), ms, ss)
             /\ call = [fn |-> "find_dir_up", pth |-> PathOfDepth(d), opts |-> o,
                        root |-> PathOfDepth(d), seen |-> {}, left |-> d + 1,
                        examined |-> <<>>, exit |-> "", ret |-> <<>>]

\* Mutant of FindDirUpStep: the stop directory is tested before the marker.
FindDirUpStepStopFirst ==
    /\ call.fn = "find_dir_up"
    /\ call.ret = <<>>
    /\ LET s == PathStr(call.root)
           dc == join(call.root, call.opts.dir)
           tested == [call EXCEPT !.seen = @ \cup {s},
                                  !.examined = Append(@, call.root)]
       IN  call' =
             IF call.left = 0
             THEN [call EXCEPT !.exit = "exhausted", !.ret = <<<<>>>>]
             ELSE IF s \in call.seen
             THEN [call EXCEPT !.exit = "seen", !.ret = <<<<>>>>]
             ELSE IF call.opts.stop # <<>> /\ has_dir(call.root, call.opts.stop[1])
             THEN [tested EXCEPT !.exit = "stop", !.ret = <<<<>>>>]
             ELSE IF is_dir(dc)
             THEN [tested EXCEPT !.exit = "found", !.ret = <<<<dc>>>>]
             ELSE IF call.root = <<>>
             THEN [tested EXCEPT !.exit = "root", !.ret = <<<<>>>>]
             ELSE [tested EXCEPT !.root = pop(@), !.left = @ - 1]
    /\ UNCHANGED <<cwd, dirs, files, frame>>

\* Mutant of FindDirUpStep: the walk gives up when the parent is the root.
FindDirUpStepSkipsRoot ==
    /\ call.fn = "find_dir_up"
    /\ call.ret = <<>>
    /\ LET s == PathStr(call.root)
           dc == join(call.root, call.opts.dir)
           tested == [call EXCEPT !.seen = @ \cup {s},
                                  !.examined = Append(@, call.root)]
       IN  call' =
             IF call.left = 0
             THEN [call EXCEPT !.exit = "exhausted", !.ret = <<<<>>>>]
             ELSE IF s \in call.seen
             THEN [call EXCEPT !.exit = "seen", !.ret = <<<<>>>>]
             ELSE IF is_dir(dc)
             THEN [tested EXCEPT !.exit = "found", !.ret = <<<<dc>>>>]
             ELSE IF call.opts.stop # <<>> /\ has_dir(call.root, call.opts.stop[1])
             THEN [tested EXCEPT !.exit = "stop", !.ret = <<<<>>>>]
             ELSE IF pop(call.root) = <<>>
             THEN [tested EXCEPT !.exit = "root", !.ret = <<<<>>>>]
             ELSE [tested EXCEPT !.root = pop(@), !.left = @ - 1]
    /\ UNCHANGED <<cwd, dirs, files, frame>>

\* file_utils.rs 53-81: one iteration of the loop, or the return after it.
\* The iterator is exhausted (left = 0); or root has been seen; or root is
\* recorded and tested for the marker, then for the stop directory, and then
\* popped, which fails at "/".
FindDirUpStep ==
    /\ call.fn = "find_dir_up"
    /\ call.ret = <<>>
    /\ LET s == PathStr(call.root)
           dc == join(call.root, call.opts.dir)
           tested == [call EXCEPT !.seen = @ \cup {s},
                                  !.examined = Append(@, call.root)]
       IN  call' =
             IF call.left = 0
             THEN [call EXCEPT !.exit = "exhausted", !.ret = <<<<>>>>]
             ELSE IF s \in call.seen
             THEN [call EXCEPT !.exit = "seen", !.ret = <<<<>>>>]
             ELSE IF is_dir(dc)
             THEN [tested EXCEPT !.exit = "found", !.ret = <<<<dc>>>>]
             ELSE IF call.opts.stop # <<>> /\ has_dir(call.root, call.opts.stop[1])
             THEN [tested EXCEPT !.exit = "stop", !.ret = <<<<>>>>]
             ELSE IF call.root = <<>>
             THEN [tested EXCEPT !.exit = "root", !.ret = <<<<>>>>]
             ELSE [tested EXCEPT !.root = pop(@), !.left = @ - 1]
    /\ UNCHANGED <<cwd, dirs, files, frame>>

NextFindDirUp == FindDirUpStep

SpecFindDirUp == InitFindDirUp /\ [][NextFindDirUp]_vars

\* The loop runs on: nothing but its own return stops find_dir_up.
FairFindDirUp == SpecFindDirUp /\ WF_vars(NextFindDirUp)

-----------------------------------------------------------------------------
(* Vocabulary of the properties *)

Done == pc = "done"

Min(a, b) == IF a <= b THEN a ELSE b

Emitted == 2..Len(result)

\* Element i was classified in the Normal state: it is neither argument 0,
\* nor a value taken by an arity flag, nor behind a terminal parameter.
InNormal(i) == i \in Emitted /\ kinds[i] \notin {"code", "value", "rest"}

IsPathKind(i) == i \in Emitted /\ kinds[i] \in {"path", "nonutf8"}

\* The class of an argument by its shape alone, in the order of section 4.6.
Shape(a) ==
    IF to_str(a) = <<>> THEN "nonutf8"
    ELSE IF a \in DOMAIN PARAM_SIZE THEN "arity"
    ELSE IF a \in TERMINAL_PARAM THEN "terminal"
    ELSE IF starts_with(a, <<"-","-">>) THEN "ddash"
    ELSE IF starts_with(a, <<"-">>) THEN "sdash"
    ELSE "path"

SearchOptions == [dir |-> DEVCONTAINER_DIR, stop |-> <<GIT_DIR>>]

\* The marker directory the upward search reaches from an argument (an Option).
MarkerOf(a) == find_dir_up(normalize(a), SearchOptions)

\* An argument's marker directory holds a usable configuration, as cached.
Usable(a) ==
    LET found == MarkerOf(a)
    IN  /\ found # <<>>
        /\ found[1] \in DOMAIN cache
        /\ cache[found[1]] # <<>>

FILE_URI == <<"-","-","f","i","l","e","-","u","r","i","=">>

FOLDER_URI == <<"-","-","f","o","l","d","e","r","-","u","r","i","=">>

IsUriFlag(s) == starts_with(s, FILE_URI) \/ starts_with(s, FOLDER_URI)

\* What path-candidate handling makes of an argument, given the cache: the
\* rewritten flag when its marker directory has a usable configuration, the
\* argument itself otherwise.
Rewritten(a) ==
    LET pth == normalize(a)
        found == find_dir_up(pth, SearchOptions)
    IN  IF found # <<>> /\ found[1] \in DOMAIN cache /\ cache[found[1]] # <<>>
        THEN (IF is_dir(pth) THEN FOLDER_URI ELSE FILE_URI)
             \o <<"v","s","c","o","d","e","-","r","e","m","o","t","e",":","/","/","d","e","v","-","c","o","n","t","a","i","n","e","r","+">>
             \o cache[found[1]][1].hex
             \o cache[found[1]][1].folder
             \o <<"/">>
             \o RelStr(strip_prefix(pth, pop(found[1]))[1])
        ELSE a

NoDuplicates(q) == \A i, j \in 1..Len(q) : q[i] = q[j] => i = j

-----------------------------------------------------------------------------
(* C1 *)

\* C1: for an argument vector of length >= 2, the returned vector has the
\* same length; element 0 is "code" whatever argument 0 was; every later
\* element stands at the position of the argument it comes from and is either
\* that argument, byte for byte, or the --file-uri=/--folder-uri= flag
\* synthesized from that argument.
C1_SameLengthSameOrder ==
    (Done /\ Len(argv) >= 2) =>
        /\ Len(result) = Len(argv)
        /\ result[1] = CODE
        /\ \A i \in 2..Len(argv) :
              \/ result[i] = argv[i]
              \/ IsUriFlag(result[i]) /\ result[i] = Rewritten(argv[i])

\* A run over three arguments behind an argument 0 that is itself a terminal
\* parameter, in which one argument is rewritten and one passes unchanged.
C1_Witness ==
    /\ Done
    /\ Len(argv) = 4
    /\ argv[1] \in TERMINAL_PARAM
    /\ \E i, j \in 2..4 : /\ IsUriFlag(result[i]) /\ result[i] # argv[i]
                          /\ result[j] = argv[j]

-----------------------------------------------------------------------------
(* C2 *)

\* C2: an argument that equals a key of the arity table while the scan is in
\* the Normal state is emitted unchanged together with the next
\* min(n, remaining) arguments, whatever their shape; none of them is
\* classified; the argument after them is classified afresh by its own shape.
C2_ArityValuesPassThrough ==
    \A i \in Emitted :
        (InNormal(i) /\ to_str(args[i]) # <<>> /\ args[i] \in DOMAIN PARAM_SIZE) =>
            LET n == PARAM_SIZE[args[i]]
                m == Min(n, Len(args) - i)
            IN  /\ kinds[i] = "arity"
                /\ result[i] = args[i]
                /\ Len(result) >= i + m
                /\ \A j \in 1..m : result[i + j] = args[i + j] /\ kinds[i + j] = "value"
                /\ Len(result) > i + m =>
                      /\ kinds[i + m + 1] = Shape(args[i + m + 1])
                      /\ IsPathKind(i + m + 1) =>
                            result[i + m + 1] = Rewritten(args[i + m + 1])

\* "--log f f" under a usable configuration: the first f is the value and stays
\* f, the second is rewritten.
C2_Witness ==
    /\ Done
    /\ Len(args) = 4
    /\ kinds[2] = "arity" /\ PARAM_SIZE[args[2]] = 1
    /\ Shape(args[3]) = "path" /\ Usable(args[3])
    /\ result[3] = args[3]
    /\ args[4] = args[3]
    /\ IsUriFlag(result[4])

-----------------------------------------------------------------------------
(* C3 *)

HasTerminal(k) == \E i \in 1..Len(k) : k[i] = "terminal"

\* C3: a terminal parameter met in the Normal state is emitted unchanged with
\* every argument after it, none of them rewritten, and from that step on the
\* resolution cache is never touched: nothing is resolved, nothing is asked.
C3_TerminalEndsRewriting ==
    /\ [](\A i \in Emitted :
            (InNormal(i) /\ to_str(args[i]) # <<>>
                /\ args[i] \notin DOMAIN PARAM_SIZE /\ args[i] \in TERMINAL_PARAM) =>
                /\ kinds[i] = "terminal"
                /\ Len(result) = Len(args)
                /\ \A j \in i..Len(args) : result[j] = args[j]
                /\ \A j \in (i + 1)..Len(args) : kinds[j] = "rest")
    /\ [][HasTerminal(kinds') =>
            cache' = cache /\ resolved' = resolved /\ chooser' = chooser]_vars

\* "f -- f" under a usable configuration: the f before the sentinel is
\* rewritten, the one after it is not.
C3_Witness ==
    /\ Done
    /\ Len(args) = 4
    /\ kinds[3] = "terminal"
    /\ Shape(args[4]) = "path" /\ Usable(args[4])
    /\ args[2] = args[4]
    /\ IsUriFlag(result[2])
    /\ result[4] = args[4]

-----------------------------------------------------------------------------
(* C4 *)

\* C4: in one run dir_properties (discovery, parsing, the chooser) runs at most
\* once per marker directory; the cache holds exactly what those runs
\* returned, and every path candidate that reaches a marker directory is
\* emitted from the cached entry, a cached None included.
C4_ResolvedOncePerMarker ==
    /\ NoDuplicates(resolved)
    /\ NoDuplicates(chooser)
    /\ \A k \in DOMAIN cache : \E r \in 1..Len(resolved) : resolved[r] = k
    /\ \A i \in Emitted :
          (IsPathKind(i) /\ MarkerOf(args[i]) # <<>>) =>
              /\ MarkerOf(args[i])[1] \in DOMAIN cache
              /\ result[i] = Rewritten(args[i])

\* Two path candidates under the same marker directory: with two
\* configurations to choose from, and with none at all (a cached None).
C4_Witness ==
    /\ Done
    /\ \E i, j \in Emitted :
          /\ i < j /\ IsPathKind(i) /\ IsPathKind(j)
          /\ MarkerOf(args[i]) # <<>> /\ MarkerOf(args[i]) = MarkerOf(args[j])
          /\ Len(resolved) = 1
          /\ \/ Len(chooser) = 1 /\ IsUriFlag(result[j])
             \/ cache[MarkerOf(args[i])[1]] = <<>>

\* The same with no configuration in the marker directory: the None is cached
\* and the second candidate passes through without a second discovery.
C4_WitnessCachedNone ==
    /\ Done
    /\ \E i, j \in Emitted :
          /\ i < j /\ IsPathKind(i) /\ IsPathKind(j)
          /\ MarkerOf(args[i]) # <<>> /\ MarkerOf(args[i]) = MarkerOf(args[j])
          /\ Len(resolved) = 1
          /\ cache[MarkerOf(args[i])[1]] = <<>>
          /\ result[j] = args[j]

-----------------------------------------------------------------------------
(* C5 *)

\* C5 as stated: an argument that is not valid UTF-8 goes through
\* path-candidate handling at whatever position it stands.
C5_AsStated ==
    \A i \in Emitted :
        to_str(args[i]) = <<>> =>
            kinds[i] = "nonutf8" /\ result[i] = Rewritten(args[i])

\* C5, amended: an argument that is not valid UTF-8 is never treated as a flag
\* or a terminal parameter; met in the Normal state it goes through
\* path-candidate handling (its marker directory is resolved and it is
\* rewritten or passed through accordingly); as a value of an arity flag or
\* behind a terminal parameter it is emitted unchanged.
C5_InvalidTextIsNeverAFlag ==
    \A i \in Emitted :
        to_str(args[i]) = <<>> =>
            /\ kinds[i] \in {"nonutf8", "value", "rest"}
            /\ InNormal(i) =>
                  /\ MarkerOf(args[i]) # <<>> => MarkerOf(args[i])[1] \in DOMAIN cache
                  /\ result[i] = Rewritten(args[i])
            /\ ~InNormal(i) => result[i] = args[i]

\* Invalid text twice in one run: rewritten where it is met in the Normal
\* state, unchanged where it is the value of an arity flag.
C5_Witness ==
    /\ Done
    /\ \E i, j \in Emitted :
          /\ args[i] = args[j] /\ to_str(args[i]) = <<>>
          /\ kinds[i] = "nonutf8" /\ IsUriFlag(result[i])
          /\ kinds[j] = "value" /\ result[j] = args[j]

-----------------------------------------------------------------------------
(* C6 *)

\* An arity flag that found fewer values than its count.
Truncated(i) ==
    /\ i \in Emitted
    /\ kinds[i] = "arity"
    /\ Len(args) - i < PARAM_SIZE[args[i]]

\* C6: when the scan ends with an arity flag short of values, a warning has
\* been surfaced (one about the missing value, not the one about coalesced
\* flags), the flag and the values present are emitted unchanged and the run
\* completes.
C6_WarnsOnMissingValue ==
    \A i \in Emitted :
        (Done /\ Truncated(i)) =>
            /\ \A j \in i..Len(args) : result[j] = args[j]
            /\ \E w \in 1..Len(warnings) : warnings[w] # COALESCED_WARNING

-----------------------------------------------------------------------------
(* C7 *)

\* C7: a vector of the invocation name alone gets "." appended before the
\* scan, so two elements are returned: "code", then what path-candidate
\* handling makes of the current directory, a --folder-uri= flag whenever a
\* marker directory with a usable configuration is found for it.
C7_ImplicitCurrentDirectory ==
    (Done /\ Len(argv) = 1) =>
        /\ args = <<argv[1], <<".">>>>
        /\ Len(result) = 2
        /\ result[1] = CODE
        /\ kinds[2] = "path"
        /\ result[2] = Rewritten(<<".">>)
        /\ Usable(<<".">>) => starts_with(result[2], FOLDER_URI)
        /\ ~Usable(<<".">>) => result[2] = <<".">>

C7_Witness ==
    /\ Done
    /\ Len(argv) = 1
    /\ Usable(<<".">>)
    /\ starts_with(result[2], FOLDER_URI)

-----------------------------------------------------------------------------
(* C8 *)

\* The upward search finds no marker directory for the argument, or one in
\* which no configuration file is discovered.
NothingToResolve(a) ==
    \/ MarkerOf(a) = <<>>
    \/ files_matching(MarkerOf(a)[1], CONFIG_FILE) = <<>>

\* C8: a path candidate for which no marker directory is found, or whose
\* marker directory holds no configuration file, is emitted exactly as given
\* (not normalized), and the next argument is classified as usual.
C8_UnresolvedPassesUnchanged ==
    \A i \in Emitted :
        (IsPathKind(i) /\ NothingToResolve(args[i])) =>
            /\ result[i] = args[i]
            /\ Len(result) > i => kinds[i + 1] = Shape(args[i + 1])

\* A candidate under a marker directory without configuration, unlike its
\* normalized form, followed by an arity flag that is classified as one.
C8_Witness ==
    /\ Done
    /\ \E i \in Emitted :
          /\ IsPathKind(i)
          /\ MarkerOf(args[i]) # <<>>
          /\ files_matching(MarkerOf(args[i])[1], CONFIG_FILE) = <<>>
          /\ result[i] = args[i]
          /\ args[i] # PathStr(normalize(args[i]))
          /\ Len(result) > i /\ kinds[i + 1] = "arity"

\* The same where the search finds no marker directory at all.
C8_WitnessNoMarker ==
    /\ Done
    /\ \E i \in Emitted :
          /\ IsPathKind(i) /\ MarkerOf(args[i]) = <<>>
          /\ result[i] = args[i]
          /\ \E j \in Emitted : IsPathKind(j) /\ MarkerOf(args[j]) # <<>>

-----------------------------------------------------------------------------
(* C9 *)

\* The workspace folder behind the "/" that separates it from the identifier.
AfterSeparator(folder) ==
    IF starts_with(folder, <<"/">>) THEN Tail(folder) ELSE folder

\* C9: a path candidate whose marker directory resolves to (hex, folder) is
\* emitted as --file-uri= (--folder-uri= exactly when it is an existing
\* directory) vscode-remote://dev-container+ hex "/" folder "/" and its path
\* relative to the project root, for every resolved configuration.
C9_UriFormat ==
    \A i \in Emitted :
        (IsPathKind(i) /\ Usable(args[i])) =>
            LET props == cache[MarkerOf(args[i])[1]][1]
                pth == normalize(args[i])
            IN  result[i] =
                    (IF is_dir(pth) THEN FOLDER_URI ELSE FILE_URI)
                    \o <<"v","s","c","o","d","e","-","r","e","m","o","t","e",":","/","/","d","e","v","-","c","o","n","t","a","i","n","e","r","+">>
                    \o props.hex \o <<"/">> \o AfterSeparator(props.folder)
                    \o <<"/">>
                    \o RelStr(strip_prefix(pth, pop(MarkerOf(args[i])[1]))[1])

-----------------------------------------------------------------------------
(* C10 *)

\* C10: in the Normal state an argument that starts with "--" and is in
\* neither table is emitted unchanged and takes no value: the argument after
\* it is classified afresh, and rewritten if it is a path candidate under a
\* marker directory with a usable configuration.
C10_UnknownDoubleDash ==
    \A i \in Emitted :
        (/\ InNormal(i) /\ to_str(args[i]) # <<>>
         /\ args[i] \notin DOMAIN PARAM_SIZE /\ args[i] \notin TERMINAL_PARAM
         /\ starts_with(args[i], <<"-","-">>)) =>
            /\ kinds[i] = "ddash"
            /\ result[i] = args[i]
            /\ Len(result) > i =>
                  /\ kinds[i + 1] = Shape(args[i + 1])
                  /\ IsPathKind(i + 1) => result[i + 1] = Rewritten(args[i + 1])

\* "--foo f" under a usable configuration: f is rewritten.
C10_Witness ==
    /\ Done
    /\ \E i \in Emitted :
          /\ kinds[i] = "ddash"
          /\ Len(result) > i
          /\ kinds[i + 1] = "path"
          /\ IsUriFlag(result[i + 1]) /\ result[i + 1] # args[i + 1]

-----------------------------------------------------------------------------
(* C11 *)

\* A parameter longer than two characters that holds one of the letters of
\* the single-letter arity flags.
Coalesced(b) == Len(b) > 2 /\ \E c \in {"a", "d", "g", "m"} : contains(b, c)

\* C11: in the Normal state an argument that starts with a single "-" and is
\* no key of the arity table is emitted unchanged and takes no value: the
\* argument after it is classified afresh, and rewritten if it is a path
\* candidate under a usable configuration.  The warning is printed once for
\* each such argument that is longer than 2 and holds one of a, d, g, m, and
\* for nothing else; the emitted element is the argument with or without it.
C11_SingleDash ==
    /\ \A i \in Emitted :
          (/\ InNormal(i) /\ to_str(args[i]) # <<>>
           /\ args[i] \notin DOMAIN PARAM_SIZE /\ args[i] \notin TERMINAL_PARAM
           /\ ~starts_with(args[i], <<"-","-">>) /\ starts_with(args[i], <<"-">>)) =>
              /\ kinds[i] = "sdash"
              /\ result[i] = args[i]
              /\ Len(result) > i =>
                    /\ kinds[i + 1] = Shape(args[i + 1])
                    /\ IsPathKind(i + 1) => result[i + 1] = Rewritten(args[i + 1])
    /\ \A w \in 1..Len(warnings) : warnings[w] = COALESCED_WARNING
    /\ Len(warnings) =
          Cardinality({i \in Emitted : kinds[i] = "sdash" /\ Coalesced(args[i])})

\* "-w -wa f" under a usable configuration: one warning, for -wa alone, and
\* the f behind it is rewritten.
C11_Witness ==
    /\ Done
    /\ Len(warnings) = 1
    /\ \E i, j \in Emitted :
          /\ kinds[i] = "sdash" /\ Coalesced(args[i]) /\ result[i] = args[i]
          /\ kinds[j] = "sdash" /\ ~Coalesced(args[j]) /\ result[j] = args[j]
          /\ Len(result) > i /\ kinds[i + 1] = "path" /\ IsUriFlag(result[i + 1])

-----------------------------------------------------------------------------
(* C12 *)

\* The path string is absolute and every one of its segments is "..".
OnlyParentDirs(input) ==
    /\ is_absolute(input)
    /\ \A k \in 1..Len(components(input)) : components(input)[k] = <<".", ".">>

\* C12: for every path string, relative or absolute, with any mix of "." and
\* ".." segments, what normalize returns has its root component and holds no
\* "." and no ".." component; ".." applied to the root alone leaves the root,
\* so an absolute string of ".." segments normalizes to the root itself.
C12_NormalizeIsAbsolute ==
    (call.fn = "normalize" /\ call.ret # <<>>) =>
        LET out == call.ret[1] IN
        /\ out.root
        /\ \A k \in 1..Len(out.names) : out.names[k] \notin {<<".">>, <<".", ".">>, ROOT_DIR}
        /\ OnlyParentDirs(call.input) => out.names = <<>>

\* "/../a" and the like: ".." met with the root alone retained, and a
\* component after it kept below the root.
C12_Witness ==
    /\ call.fn = "normalize" /\ call.ret # <<>>
    /\ is_absolute(call.input)
    /\ Len(components(call.input)) >= 2
    /\ components(call.input)[1] = <<".", ".">>
    /\ call.ret[1] = [root |-> TRUE, names |-> <<<<"a">>>>]

-----------------------------------------------------------------------------
(* C13 *)

\* The identifier of a configuration that is not the default one, with the
\* text lit standing wherever the path of the configuration is embedded.
PseudoJson(root, lit) ==
    <<"{","\"","h","o","s","t","P","a","t","h","\"",":">>
    \o DebugPath(root)
    \o <<",","\"","l","o","c","a","l","D","o","c","k","e","r","\"",":","f","a","l","s","e",",","\"","s","e","t","t","i","n","g","s","\"",":","{","\"","c","o","n","t","e","x","t","\"",":","\"","d","e","s","k","t","o","p","-","l","i","n","u","x","\"","}",",","\"","c","o","n","f","i","g","F","i","l","e","\"",":","{","\"","$","m","i","d","\"",":","1",",","\"","f","s","P","a","t","h","\"",":","\"">>
    \o lit
    \o <<"\"",",","\"","e","x","t","e","r","n","a","l","\"",":","\"","f","i","l","e",":","/","/">>
    \o lit
    \o <<"\"",",","\"","p","a","t","h","\"",":","\"">>
    \o lit
    \o <<"\"",",","\"","s","c","h","e","m","e","\"",":","\"","f","i","l","e","\"","}","}">>

\* C13: container_id(R, C) is the plain string form of R exactly when C is
\* R/.devcontainer/devcontainer.json; for every other C it is the pseudo-JSON
\* string that starts with "{", carries R as hostPath and holds the literal
\* path of C three times: as fsPath, in the file:// external value, as path.
C13_ContainerId ==
    (call.fn = "container_id" /\ call.ret # <<>>) =>
        LET default == join(join(call.root, DEVCONTAINER_DIR), CONFIG_FILE)
            id == call.ret[1]
        IN  /\ (call.chosen = default) <=> (id = PathStr(call.root))
            /\ call.chosen # default =>
                  /\ id[1] = "{"
                  /\ id = PseudoJson(call.root, PathStr(call.chosen))

-----------------------------------------------------------------------------
(* C14 *)

\* The value of a lowercase hexadecimal digit.
HexValue ==
    ("0" :> 0) @@ ("1" :> 1) @@ ("2" :> 2) @@ ("3" :> 3) @@ ("4" :> 4) @@ ("5" :> 5)
    @@ ("6" :> 6) @@ ("7" :> 7) @@ ("8" :> 8) @@ ("9" :> 9) @@ ("a" :> 10)
    @@ ("b" :> 11) @@ ("c" :> 12) @@ ("d" :> 13) @@ ("e" :> 14) @@ ("f" :> 15)

\* Decoding, two digits to a byte, the high digit first.
Unhex(s) ==
    [k \in 1..(Len(s) \div 2) |-> 16 * HexValue[s[2 * k - 1]] + HexValue[s[2 * k]]]

\* C14: for every byte sequence B, hex(B) has length 2 * len(B), holds only
\* the characters 0-9 and a-f, and decoding it two digits at a time gives B
\* back, byte for byte in the same order.
C14_HexRoundTrip ==
    (call.fn = "hex" /\ call.ret # <<>>) =>
        LET out == call.ret[1] IN
        /\ Len(out) = 2 * Len(call.input)
        /\ \A i \in 1..Len(out) : out[i] \in DOMAIN HexValue
        /\ Unhex(out) = call.input

\* The bytes 0x01 0x7f of test_hex give "017f": a padded byte and a letter.
C14_Witness ==
    /\ call.fn = "hex"
    /\ call.input = <<1, 127>>
    /\ call.ret = <<<<"0", "1", "7", "f">>>>

-----------------------------------------------------------------------------
(* C15 *)

Returned == call.fn = "find_dir_up" /\ call.ret # <<>>

HasMarker(k) == is_dir(join(Level(call.pth, k), call.opts.dir))

HasStop(k) ==
    call.opts.stop # <<>> /\ is_dir(join(Level(call.pth, k), call.opts.stop[1]))

\* The levels, counted upward from the path itself, that end the walk.
Decisive == {k \in 0..Len(call.pth) : HasMarker(k) \/ HasStop(k)}

\* The nearest of them.
Nearest == CHOOSE k \in Decisive : \A j \in Decisive : k <= j

\* C15: find_dir_up examines the path itself, then its parent, and so on
\* upward.  It returns the marker directory of the nearest level that has
\* one, the path itself included, unless a strictly nearer level has the
\* stop directory; a level with both counts as a marker.  It returns None at
\* a level with the stop directory and no marker, whatever lies above, and
\* None when no level up to the root has either.
C15_NearestMarkerUnlessStopped ==
    /\ call.fn = "find_dir_up" =>
          \A j \in 1..Len(call.examined) : call.examined[j] = Level(call.pth, j - 1)
    /\ Returned =>
          /\ call.ret[1] =
                IF Decisive # {} /\ HasMarker(Nearest)
                THEN <<join(Level(call.pth, Nearest), call.opts.dir)>>
                ELSE <<>>
          /\ call.ret[1] = find_dir_up(call.pth, call.opts)
          /\ Len(call.examined) =
                IF Decisive # {} THEN Nearest + 1 ELSE Len(call.pth) + 1

\* The path itself has neither directory, its parent has the stop directory
\* alone, and the level above that has the marker: None, after two levels.
C15_Witness ==
    /\ Returned
    /\ Len(call.pth) = 2
    /\ ~HasMarker(0) /\ ~HasStop(0)
    /\ HasStop(1) /\ ~HasMarker(1)
    /\ HasMarker(2)
    /\ call.ret = <<<<>>>>
    /\ Len(call.examined) = 2

\* The nearest level has both directories: the marker is returned.
C15_WitnessBoth ==
    /\ Returned
    /\ HasMarker(0) /\ HasStop(0)
    /\ call.ret = <<<<join(call.pth, call.opts.dir)>>>>

-----------------------------------------------------------------------------
(* C16 *)

\* C16: find_dir_up returns for every normalized path and every filesystem.
\* Until then no level is examined twice and no more levels are examined
\* than the path has components, the root included; when it gives up with
\* neither directory found, the last level examined is the root.
C16_FindDirUpTerminates ==
    /\ <>Returned
    /\ [](call.fn = "find_dir_up" =>
            /\ NoDuplicates(call.examined)
            /\ Len(call.examined) <= Len(call.pth) + 1
            /\ (Returned /\ Decisive = {}) =>
                  /\ call.ret = <<<<>>>>
                  /\ call.exit = "root"
                  /\ call.examined[Len(call.examined)] = <<>>)

\* A path of two components with nothing to find: three levels examined,
\* the root last, and None.
C16_Witness ==
    /\ Returned
    /\ Len(call.pth) = 2
    /\ Decisive = {}
    /\ call.examined = <<call.pth, pop(call.pth), <<>>>>
    /\ call.ret = <<<<>>>>

-----------------------------------------------------------------------------
(* C17 *)

\* The configuration files discovered in a marker directory.
Discovered(m) ==
    LET found == files_matching(m, CONFIG_FILE)
    IN  {found[k] : k \in 1..Len(found)}

\* The file cannot be read, or its content does not parse.
Bad(f) == ~files[f].readable \/ files[f].json = <<>>

\* The scan stands at a path candidate whose marker directory holds a
\* configuration file that cannot be read or parsed.
AtBadMarker ==
    /\ Scanning
    /\ Shape(args[it]) \in {"path", "nonutf8"}
    /\ MarkerOf(args[it]) # <<>>
    /\ \E f \in Discovered(MarkerOf(args[it])[1]) : Bad(f)

\* C17: when a path candidate reaches a marker directory in which one
\* discovered configuration file cannot be read or does not parse, the run
\* aborts at that candidate, whatever the other files of the directory are:
\* nothing is emitted for the candidate, no entry enters the cache, the
\* chooser is not asked, and the run never returns a vector.
C17_BadConfigurationAborts ==
    /\ [][AtBadMarker =>
            /\ pc' = "panic"
            /\ result' = result /\ cache' = cache /\ chooser' = chooser]_vars
    /\ [][pc = "panic" => pc' = "panic"]_vars
    /\ [](\A i \in Emitted :
            (IsPathKind(i) /\ MarkerOf(args[i]) # <<>>) =>
                \A f \in Discovered(MarkerOf(args[i])[1]) : ~Bad(f))

\* The run has aborted at a candidate whose marker directory holds one file
\* that cannot be read beside one that parses, after emitting an argument.
C17_Witness ==
    /\ pc = "panic"
    /\ Len(result) >= 2
    /\ it <= Len(args)
    /\ MarkerOf(args[it]) # <<>>
    /\ \E f, g \in Discovered(MarkerOf(args[it])[1]) :
          ~files[f].readable /\ ~Bad(g)

\* The same with a file that is read but does not parse.
C17_WitnessUnparsable ==
    /\ pc = "panic"
    /\ it <= Len(args)
    /\ MarkerOf(args[it]) # <<>>
    /\ \E f, g \in Discovered(MarkerOf(args[it])[1]) :
          files[f].readable /\ Bad(f) /\ ~Bad(g)

-----------------------------------------------------------------------------
(* C18 *)

\* dir_properties has run on the marker directory; choose() has.
WasResolved(m) == \E r \in 1..Len(resolved) : resolved[r] = m

WasAsked(m) == \E c \in 1..Len(chooser) : chooser[c] = m

\* The identifier, hex-encoded, that choosing the file f in the marker
\* directory m gives.
HexIdOf(m, f) == hex(as_bytes(container_id(SubSeq(m, 1, Len(m) - 1), f)))

\* C18: for a marker directory whose discovered files all parse, resolution
\* goes by their number: none gives None; one is taken without asking the
\* chooser; more than one asks the chooser, and only then, once per marker
\* directory; what is cached is always the identifier of one of the
\* discovered files.
C18_SelectionByCount ==
    /\ NoDuplicates(chooser)
    /\ \A r \in 1..Len(resolved) :
          LET m == resolved[r]
              n == Cardinality(Discovered(m))
          IN  (\A f \in Discovered(m) : ~Bad(f)) =>
                /\ WasAsked(m) <=> n > 1
                /\ n <= 1 => m \in DOMAIN cache
                /\ n = 0 => cache[m] = <<>>
                /\ (n >= 1 /\ m \in DOMAIN cache) =>
                      /\ cache[m] # <<>>
                      /\ \E f \in Discovered(m) : cache[m][1].hex = HexIdOf(m, f)
    /\ \A c \in 1..Len(chooser) : WasResolved(chooser[c])

\* Two candidates under a marker directory with two configurations: the
\* chooser was asked once, and its answer, the configuration in the
\* subdirectory, serves both.
C18_Witness ==
    /\ Done
    /\ chooser = <<Marker>>
    /\ Cardinality(Discovered(Marker)) = 2
    /\ cache[Marker][1].hex = HexIdOf(Marker, SubConfig)
    /\ \E i, j \in Emitted : i < j /\ IsUriFlag(result[i]) /\ IsUriFlag(result[j])

\* One configuration, in a subdirectory: taken without asking.
C18_WitnessOne ==
    /\ Done
    /\ chooser = <<>>
    /\ Discovered(Marker) = {SubConfig}
    /\ Marker \in DOMAIN cache
    /\ cache[Marker][1].hex = HexIdOf(Marker, SubConfig)

-----------------------------------------------------------------------------
(* C19 *)

FilesMatchingReturned == call.fn = "files_matching" /\ call.ret # <<>>

\* The files named file_name directly in dir or directly in one of the
\* directories directly in dir.
OneLevelBelow(dir, file_name) ==
    {f \in DOMAIN files :
        /\ f # <<>>
        /\ <<f[Len(f)]>> = components(file_name)
        /\ \/ pop(f) = dir
           \/ pop(f) # <<>> /\ pop(pop(f)) = dir /\ pop(f) \in dirs}

\* C19: files_matching returns exactly the configuration files directly in
\* the marker directory or directly in one of its immediate subdirectories,
\* each once; a configuration file deeper down is never returned, and a
\* marker path that is not a directory gives no candidate.
C19_OneLevelOnly ==
    FilesMatchingReturned =>
        LET found == call.ret[1]
        IN  /\ NoDuplicates(found)
            /\ call.dir \in dirs =>
                  {found[k] : k \in 1..Len(found)}
                      = OneLevelBelow(call.dir, call.file_name)
            /\ call.dir \notin dirs => found = <<>>
            /\ \A k \in 1..Len(found) : Len(found[k]) <= Len(call.dir) + 2

\* A configuration file at each depth: the two near ones are returned, the
\* one two levels down is not.
C19_Witness ==
    /\ FilesMatchingReturned
    /\ {MatchDir, MatchSub, MatchDeep} \subseteq dirs
    /\ join(MatchDeep, CONFIG_FILE) \in DOMAIN files
    /\ Len(call.ret[1]) = 2
    /\ call.ret[1][1] = join(MatchDir, CONFIG_FILE)
    /\ call.ret[1][2] = join(MatchSub, CONFIG_FILE)

\* The marker path is a file.
C19_WitnessNotADirectory ==
    /\ FilesMatchingReturned
    /\ MatchDir \in DOMAIN files
    /\ call.ret[1] = <<>>

-----------------------------------------------------------------------------
(* C20 *)

WORKSPACES == <<"/","w","o","r","k","s","p","a","c","e","s","/">>

\* The last path segment of a project root, as it stands on the filesystem
\* ("/" for the root directory, the only component it has).
LastPathSegment(project) ==
    IF project = <<>> THEN <<"/">> ELSE project[Len(project)]

\* The folder the claim gives when f is the chosen file of the marker
\* directory m.
ClaimedFolder(m, f) ==
    LET declared == files[f].json[1].workspace_folder
    IN  IF declared # <<>> THEN declared[1]
        ELSE WORKSPACES \o LastPathSegment(SubSeq(m, 1, Len(m) - 1))

\* C20: every resolved marker directory is cached with the properties of one
\* of its configuration files: the identifier made from the marker
\* directory without its final component, and as folder the declared
\* workspace folder verbatim, or else /workspaces/ followed by the last path
\* segment of the marker directory's parent.
C20_WorkspaceFolder ==
    \A m \in DOMAIN cache :
        cache[m] # <<>> =>
            \E f \in Discovered(m) :
                /\ ~Bad(f)
                /\ cache[m][1].hex = HexIdOf(m, f)
                /\ cache[m][1].folder = ClaimedFolder(m, f)

-----------------------------------------------------------------------------
(* C21 *)

\* a is p or one of its ancestors.
IsAncestorOrSelf(a, p) ==
    /\ Len(a) <= Len(p)
    /\ \A k \in 1..Len(a) : a[k] = p[k]

\* The scan stands at an argument that path handling is about to take.
AtPathCandidate ==
    /\ Scanning
    /\ Shape(args[it]) \in {"path", "nonutf8"}

\* C21: whenever the upward search succeeds for the normalized path candidate
\* the scan stands at, the returned marker directory without its final
\* component is the candidate or one of its ancestors, so strip_prefix gives
\* a relative path, and to_devcontainer_uri aborts only where dir_properties
\* does, whatever the chooser answers.
C21_StripPrefixNeverFails ==
    AtPathCandidate =>
        LET pth == normalize(args[it])
            found == find_dir_up(pth, SearchOptions)
        IN  found # <<>> =>
              /\ found[1] # <<>>
              /\ found[1][Len(found[1])] = DEVCONTAINER_DIR
              /\ IsAncestorOrSelf(SubSeq(found[1], 1, Len(found[1]) - 1), pth)
              /\ strip_prefix(pth, pop(found[1])) # <<>>
              /\ \A selection \in Selections(args[it]) :
                    to_devcontainer_uri(args[it], DEVCONTAINER_DIR, cache, selection).panic
                        => /\ found[1] \notin DOMAIN cache
                           /\ dir_properties(found[1], selection).panic

\* The candidate .. from /p/s is the project root /p itself: it was
\* rewritten, with nothing left after the prefix.
C21_Witness ==
    /\ Done
    /\ Len(argv) >= 2
    /\ argv[2] = <<".",".">>
    /\ kinds[2] = "path"
    /\ IsUriFlag(result[2])
    /\ MarkerOf(argv[2]) = <<Marker>>
    /\ strip_prefix(normalize(argv[2]), pop(Marker)) = <<<<>>>>

\* An absolute candidate beside the working directory, rewritten under the
\* marker directory of "/" although the working directory has its own.
C21_WitnessBeside ==
    /\ Done
    /\ Len(argv) >= 2
    /\ argv[2] = <<"/","q","/","f">>
    /\ IsUriFlag(result[2])
    /\ CwdMarker \in dirs
    /\ MarkerOf(argv[2]) = <<RootMarker>>

=============================================================================
